---------------------------- MODULE Spec2Model ----------------------------
(***************************************************************************)
(* Model of LlmSdk::chat_completion_stream (src/src/lib.rs 57-107): the    *)
(* read loop that pulls byte chunks from the HTTP response body, scans     *)
(* each chunk for line feeds, strips everything before the first `{` and   *)
(* decodes the rest of the chunk as one ChatCompletionChunkResponse, which *)
(* is handed to MessageEvent::on_message; on_end is called when the body   *)
(* ends.                                                                   *)
(*                                                                         *)
(* Bytes are their ASCII values.  The response body is a concatenation of  *)
(* frames `data: <payload>\n\n`; the transport hands it over in chunks cut *)
(* at arbitrary offsets.                                                   *)
(***************************************************************************)
EXTENDS Integers, Sequences, FiniteSets, TLC

VARIABLES
    frames,   \* the kinds of the frames the server wrote into the body
    off,      \* number of body bytes the transport has handed over so far
    reads,    \* outcome of every res.chunk() call made so far, in order
    events,   \* calls made on the MessageEvent consumer, in order
    pc,       \* "send" | "loop" | "done": position in chat_completion_stream
    result,   \* "Pending" | "Ok" | "TransportError" | "DecodeError" | "Panic"
    status,   \* HTTP status of the response, 0 before there is one
    requests, \* number of HTTP requests chat_completion_stream has sent
    calls,    \* the chat_completion_stream calls running side by side
    rpc,      \* a non-streaming call: chat_completion, vision_pro, embeddings
    ser       \* a ChatCompletionRequest and its serialization

\* the variables of the specifications other than the single stream
outside == <<calls, rpc, ser>>

vars == <<frames, off, reads, events, pc, result, status, requests,
          calls, rpc, ser>>

---------------------------------------------------------------------------
(* Bounds of the model *)

\* largest number of frames in one response body
MaxFrames == 2

---------------------------------------------------------------------------
(* Program constants, src/src/lib.rs 15-18 *)

LINE_FEED == 10
SEARCH_TAIL == 10
LINE_FEED_COUNT == 2
LEFT_SIGN == 123

---------------------------------------------------------------------------
(* Wire format: the bytes of the frames *)

\* {"id":"1","model":"m","object":"o","created":1,"choices":[]}   (60 bytes)
Payload1 ==
    << 123, 34, 105, 100, 34, 58, 34, 49, 34, 44, 34, 109, 111, 100, 101, 108,
       34, 58, 34, 109, 34, 44, 34, 111, 98, 106, 101, 99, 116, 34, 58, 34, 111,
       34, 44, 34, 99, 114, 101, 97, 116, 101, 100, 34, 58, 49, 44, 34, 99, 104,
       111, 105, 99, 101, 115, 34, 58, 91, 93, 125 >>

\* {"id":"2","model":"m","object":"o","created":1,"choices":[{"index":0}]}
\* (71 bytes)
Payload2 ==
    << 123, 34, 105, 100, 34, 58, 34, 50, 34, 44, 34, 109, 111, 100, 101, 108,
       34, 58, 34, 109, 34, 44, 34, 111, 98, 106, 101, 99, 116, 34, 58, 34, 111,
       34, 44, 34, 99, 114, 101, 97, 116, 101, 100, 34, 58, 49, 44, 34, 99, 104,
       111, 105, 99, 101, 115, 34, 58, 91, 123, 34, 105, 110, 100, 101, 120, 34,
       58, 48, 125, 93, 125 >>

\* {bad json}   (10 bytes): not JSON
BadShortPayload ==
    << 123, 98, 97, 100, 32, 106, 115, 111, 110, 125 >>

\* {"id":"1","model":"m"}   (22 bytes): JSON, but the required fields
\* object, created and choices are missing
BadLongPayload ==
    << 123, 34, 105, 100, 34, 58, 34, 49, 34, 44, 34, 109, 111, 100, 101, 108,
       34, 58, 34, 109, 34, 125 >>

\* [DONE]
SentinelPayload ==
    << 91, 68, 79, 78, 69, 93 >>

\* `data: `
FieldMarker ==
    << 100, 97, 116, 97, 58, 32 >>

\* \n\n
Delimiter ==
    << LINE_FEED, LINE_FEED >>

\* data: {"id":"1","model":"m",   (28 bytes): a frame the server never finished
TruncBytes ==
    << 100, 97, 116, 97, 58, 32, 123, 34, 105, 100, 34, 58, 34, 49, 34, 44, 34,
       109, 111, 100, 101, 108, 34, 58, 34, 109, 34, 44 >>

\* frames carrying a chat-completion chunk
ChunkKinds == {"Chunk1", "Chunk2"}

\* complete frames whose payload is neither the sentinel nor a chunk
BadKinds == {"BadShort", "BadLong"}

\* complete frames
FrameKinds == ChunkKinds \cup BadKinds \cup {"Done"}

\* identifier carried by the chunk of a frame (its "id" field)
FrameId(kind) ==
    CASE kind = "Chunk1" -> 1
      [] kind = "Chunk2" -> 2
      [] OTHER -> 0

FrameBytes(kind) ==
    CASE kind = "Chunk1" -> FieldMarker \o Payload1 \o Delimiter
      [] kind = "Chunk2" -> FieldMarker \o Payload2 \o Delimiter
      [] kind = "BadShort" -> FieldMarker \o BadShortPayload \o Delimiter
      [] kind = "BadLong" -> FieldMarker \o BadLongPayload \o Delimiter
      [] kind = "Done" -> FieldMarker \o SentinelPayload \o Delimiter
      [] kind = "Trunc" -> TruncBytes

RECURSIVE WireOf(_)
\* the response body: the frames one after the other
WireOf(fs) ==
    IF fs = <<>> THEN <<>> ELSE FrameBytes(Head(fs)) \o WireOf(Tail(fs))

Wire == WireOf(frames)

\* offset in the body at which frame k ends
FrameEnd(k) == Len(WireOf(SubSeq(frames, 1, k)))

---------------------------------------------------------------------------
(* serde_json::from_slice::<ChatCompletionChunkResponse> *)

\* the bytes serde_json skips before a value and accepts after it
JsonWhitespace == {32, 10, 13, 9}

RECURSIVE SkipLeft(_)
SkipLeft(s) ==
    IF s # <<>> /\ Head(s) \in JsonWhitespace THEN SkipLeft(Tail(s)) ELSE s

RECURSIVE SkipRight(_)
SkipRight(s) ==
    IF s # <<>> /\ s[Len(s)] \in JsonWhitespace
    THEN SkipRight(SubSeq(s, 1, Len(s) - 1))
    ELSE s

\* from_slice: whitespace, one value of the chunk schema, whitespace, end of
\* input.  Of the byte strings the wire format above can produce, the values
\* that deserialize into ChatCompletionChunkResponse are Payload1 and
\* Payload2.  The result is the chunk's id, 0 for Err.
FromSlice(s) ==
    LET v == SkipRight(SkipLeft(s))
    IN  IF v = Payload1 THEN 1
        ELSE IF v = Payload2 THEN 2
        ELSE 0

---------------------------------------------------------------------------
(* The body of the while loop, lib.rs 73-103.  Indices are 0-based as in   *)
(* the source: chunk[i] of the source is chunk[i + 1] here.                *)

\* the indices the for loop of lines 80-91 visits before it ends or panics
\* at index stop: 0 .. stop - 1
Visited(stop) == 0..(stop - 1)

\* the for loop of lines 80-91: whether it panics, and line_count after it.
\* An iteration reads nothing an earlier iteration wrote except line_count,
\* which it only increments, so the loop is given as a function of the index.
Scan(chunk) ==
    LET chunk_len == Len(chunk)
        search_len == (chunk_len \div 2) + SEARCH_TAIL
        \* line 82, chunk[i]: index out of bounds
        OutOfBounds(i) == i >= chunk_len
        \* line 83, chunk_len - LINE_FEED_COUNT below zero: a debug build
        \* panics on the subtraction; a release build wraps, takes the branch
        \* and panics on chunk[i + LINE_FEED_COUNT] in line 84
        Underflow(i) ==
            /\ i < chunk_len
            /\ chunk[i + 1] = LINE_FEED
            /\ chunk_len < LINE_FEED_COUNT
        \* lines 82-88: line_count is incremented in iteration i
        Counted(i) ==
            /\ chunk[i + 1] = LINE_FEED
            /\ i < chunk_len - LINE_FEED_COUNT
            /\ LET last_pos == i IN (last_pos + 1) = i
        panics == \E i \in Visited(search_len) : OutOfBounds(i) \/ Underflow(i)
    IN  [panic |-> panics,
         line_count |->
             IF panics THEN 0
             ELSE Cardinality({i \in Visited(search_len) : Counted(i)})]

\* the for loop of lines 94-100: the index of the first `{`, 0 when there is
\* none
FindLeftSign(chunk) ==
    LET found == {i \in 0..(Len(chunk) - 1) : chunk[i + 1] = LEFT_SIGN}
    IN  IF found = {} THEN 0
        ELSE CHOOSE i \in found : \A j \in found : i <= j

\* fault variant of DecodeChunk: the whole chunk is decoded, the `data: `
\* before the first `{` included
DecodeWholeChunk(chunk) == FromSlice(chunk)

\* lines 101-102: &chunk[pos..] decoded; the chunk's id, 0 for Err
DecodeChunk(chunk) ==
    LET pos == FindLeftSign(chunk)
    IN  FromSlice(SubSeq(chunk, pos + 1, Len(chunk)))

\* what handling one chunk ends in: "panic", "error" or "message"
ChunkOutcome(chunk) ==
    IF Scan(chunk).panic THEN "panic"
    ELSE IF DecodeChunk(chunk) = 0 THEN "error"
    ELSE "message"

---------------------------------------------------------------------------
(* The consumer, trait MessageEvent *)

\* fault variant of on_message: the call is recorded ahead of the earlier
\* ones, as if deliveries overtook each other
on_message_front(log, id) == <<[op |-> "on_message", msg |-> id]>> \o log

on_message(log, id) == Append(log, [op |-> "on_message", msg |-> id])

on_end(log) == Append(log, [op |-> "on_end", msg |-> 0])

---------------------------------------------------------------------------
(* chat_completion_stream *)

\* bodies: up to MaxFrames complete frames, the last one possibly cut short
Bodies ==
    UNION { [1..n -> FrameKinds] : n \in 0..MaxFrames }
    \cup UNION { { Append(b, "Trunc") : b \in [1..n -> FrameKinds] }
                 : n \in 0..(MaxFrames - 1) }

\* statuses the response can carry
Statuses == {200, 404, 500}

\* the other specifications' variables while they are not in use
OutsideIdle ==
    /\ calls = <<>>
    /\ rpc = [pc |-> "idle"]
    /\ ser = [pc |-> "idle"]

Init ==
    /\ frames \in Bodies
    /\ off = 0
    /\ reads = <<>>
    /\ events = <<>>
    /\ pc = "send"
    /\ result = "Pending"
    /\ status = 0
    /\ requests = 0
    /\ OutsideIdle

\* line 70: send() resolves with a response
\* the status is not looked at: any status goes on to the read loop
SendOk ==
    /\ pc = "send"
    /\ pc' = "loop"
    /\ requests' = requests + 1
    /\ \E st \in Statuses : status' = st
    /\ UNCHANGED <<frames, off, reads, events, result>>
    /\ UNCHANGED outside

\* fault variant of SendErr: the failed request is sent again
SendErrRetry ==
    /\ pc = "send"
    /\ requests' = requests + 1
    /\ UNCHANGED <<frames, off, reads, events, pc, result, status>>
    /\ UNCHANGED outside

\* line 70: send() fails, `?` returns the error
SendErr ==
    /\ pc = "send"
    /\ pc' = "done"
    /\ result' = "TransportError"
    /\ requests' = requests + 1
    /\ UNCHANGED <<frames, off, reads, events, status>>
    /\ UNCHANGED outside

\* fault variant of HandleChunk: the decode error is returned only after the
\* consumer has been told the stream ended
HandleChunkEndOnError(chunk) ==
    LET outcome == ChunkOutcome(chunk)
    IN  IF outcome = "panic"
        THEN [events |-> events, pc |-> "done", result |-> "Panic"]
        ELSE IF outcome = "error"
        THEN [events |-> on_end(events), pc |-> "done",
              result |-> "DecodeError"]
        ELSE [events |-> on_message(events, DecodeChunk(chunk)),
              pc |-> pc, result |-> result]

\* lines 73-103, the loop body for one chunk: what the consumer has been told
\* and where the call stands when the chunk has been handled
HandleChunk(chunk) ==
    LET outcome == ChunkOutcome(chunk)
    IN  IF outcome = "panic"
        THEN [events |-> events, pc |-> "done", result |-> "Panic"]
        ELSE IF outcome = "error"
        THEN \* line 102: `?` returns the serde_json error
             [events |-> events, pc |-> "done", result |-> "DecodeError"]
        ELSE \* line 103
             [events |-> on_message(events, DecodeChunk(chunk)),
              pc |-> pc, result |-> result]

\* lines 72-104: chunk() yields Some(chunk), the next n bytes of the body,
\* and the loop body handles it
NextChunk ==
    /\ pc = "loop"
    /\ \E n \in 1..(Len(Wire) - off) :
         LET chunk == SubSeq(Wire, off + 1, off + n)
             h == HandleChunk(chunk)
         IN  /\ off' = off + n
             /\ reads' = Append(reads, [kind |-> "chunk", len |-> n])
             /\ events' = h.events
             /\ pc' = h.pc
             /\ result' = h.result
    /\ UNCHANGED <<frames, status, requests>>
    /\ UNCHANGED outside

\* lines 72, 105-106: chunk() yields None; on_end, Ok(())
EndOfBody ==
    /\ pc = "loop"
    /\ off = Len(Wire)
    /\ reads' = Append(reads, [kind |-> "eof", len |-> 0])
    /\ events' = on_end(events)
    /\ pc' = "done"
    /\ result' = "Ok"
    /\ UNCHANGED <<frames, off, status, requests>>
    /\ UNCHANGED outside

\* fault variant of ChunkErr: the failed read is taken for the end of the
\* body and the loop is left as on None
ChunkErrAsEnd ==
    /\ pc = "loop"
    /\ reads' = Append(reads, [kind |-> "error", len |-> 0])
    /\ events' = on_end(events)
    /\ pc' = "done"
    /\ result' = "Ok"
    /\ UNCHANGED <<frames, off, status, requests>>
    /\ UNCHANGED outside

\* line 72: chunk() fails, `?` returns the error
ChunkErr ==
    /\ pc = "loop"
    /\ reads' = Append(reads, [kind |-> "error", len |-> 0])
    /\ pc' = "done"
    /\ result' = "TransportError"
    /\ UNCHANGED <<frames, off, events, status, requests>>
    /\ UNCHANGED outside

Next ==
    \/ SendOk
    \/ SendErr
    \/ NextChunk
    \/ EndOfBody
    \/ ChunkErr

Spec == Init /\ [][Next]_vars

---------------------------------------------------------------------------
(* Observations *)

TypeOK ==
    /\ frames \in Bodies
    /\ off \in 0..Len(Wire)
    /\ pc \in {"send", "loop", "done"}
    /\ result \in {"Pending", "Ok", "TransportError", "DecodeError", "Panic"}

IsMessage(e) == e.op = "on_message"

\* the ids of the chunks handed to on_message, in call order
Delivered ==
    LET sel == SelectSeq(events, IsMessage)
    IN  [i \in 1..Len(sel) |-> sel[i].msg]

\* number of on_end calls
Ended == Cardinality({i \in 1..Len(events) : events[i].op = "on_end"})

RECURSIVE ReadStart(_)
\* offset in the body at which the i-th read began
ReadStart(i) == IF i <= 1 THEN 0 ELSE ReadStart(i - 1) + reads[i - 1].len

\* the bytes the i-th read returned
ChunkAt(i) == SubSeq(Wire, ReadStart(i) + 1, ReadStart(i) + reads[i].len)

RECURSIVE DecodedUpTo(_)
\* the ids decoded from the chunks of reads 1..i, in read order
DecodedUpTo(i) ==
    IF i <= 0 THEN <<>>
    ELSE IF reads[i].kind = "chunk" /\ ChunkOutcome(ChunkAt(i)) = "message"
    THEN Append(DecodedUpTo(i - 1), DecodeChunk(ChunkAt(i)))
    ELSE DecodedUpTo(i - 1)

IsChunkKind(kind) == kind \in ChunkKinds

\* the ids of the chunk frames of the body, in the order the server wrote them
BodyIds ==
    LET sel == SelectSeq(frames, IsChunkKind)
    IN  [i \in 1..Len(sel) |-> FrameId(sel[i])]

IsPrefix(s, t) == Len(s) <= Len(t) /\ s = SubSeq(t, 1, Len(s))

\* frame k is a complete frame and all of it has been handed over
Received(k) ==
    /\ k \in 1..Len(frames)
    /\ frames[k] \in FrameKinds
    /\ FrameEnd(k) <= off

\* the latest chunk() call returned the bytes that completed frame k: the
\* frame arrived while the call was still reading
ArrivedNow(k) ==
    /\ Received(k)
    /\ reads # <<>>
    /\ reads[Len(reads)].kind = "chunk"
    /\ off - reads[Len(reads)].len < FrameEnd(k)

\* every frame before frame k carries a chunk
ChunksBefore(k) == \A j \in 1..(k - 1) : frames[j] \in ChunkKinds

\* the body has a sentinel frame and all of it has been handed over
SentinelReceived == \E k \in 1..Len(frames) : frames[k] = "Done" /\ Received(k)

---------------------------------------------------------------------------
(* Claims *)

\* C1: a body of N well-formed chunk frames, handed over in chunks cut at any
\* offsets, is decoded into exactly N frames in the original order: when the
\* call has ended, and not on a transport error, on_message has been called
\* once for each frame of the body, in order.
C1_AllFramesDecoded ==
    ( /\ pc = "done"
      /\ result # "TransportError"
      /\ \A k \in 1..Len(frames) : frames[k] \in ChunkKinds )
    => Delivered = [k \in 1..Len(frames) |-> FrameId(frames[k])]

\* C2: a sentinel frame that arrives while the call is still reading is
\* classified as Done without being decoded as JSON: on_end is called and the
\* call returns Ok.
C2_SentinelCompletes ==
    \A k \in 1..Len(frames) :
        (frames[k] = "Done" /\ ChunksBefore(k) /\ ArrivedNow(k))
        => (pc = "done" /\ result = "Ok" /\ Ended = 1)

\* C3: on_end is called at most once, and only after a sentinel frame was
\* received; the call returns Ok only after a sentinel frame was received.
C3_EndOnlyAfterSentinel ==
    /\ Ended <= 1
    /\ (Ended >= 1 \/ result = "Ok") => SentinelReceived

\* C4: when chunk() yields None and no sentinel frame was received, the call
\* fails: it does not return Ok and on_end is not called.
C4_EofWithoutSentinelFails ==
    ( /\ reads # <<>>
      /\ reads[Len(reads)].kind = "eof"
      /\ ~SentinelReceived )
    => (result # "Ok" /\ Ended = 0)

\* C5: on_message is called once for each chunk that decoded and for nothing
\* else, in arrival order: the calls are the ids decoded from the chunks read,
\* in read order, they are the chunk frames of the body in the order the
\* server wrote them (none skipped, repeated or swapped), and nothing is
\* delivered after on_end.
C5_MessagesInArrivalOrder ==
    /\ Delivered = DecodedUpTo(Len(reads))
    /\ IsPrefix(Delivered, BodyIds)
    /\ \A i \in 1..Len(events) :
           events[i].op = "on_end" => i = Len(events)

\* C5 happens: two different chunks were delivered, in the order they were
\* written, before the call ended
C5_Witness ==
    /\ Delivered = <<1, 2>>
    /\ pc = "done"

\* C6: once the sentinel frame has arrived nothing more is interpreted and
\* no further chunk is requested: the read that completed the sentinel is the
\* last one, no chunk written after the sentinel reaches on_message, and the
\* bytes after the sentinel cause no decode error.
C6_NothingAfterSentinel ==
    \A k \in 1..Len(frames) :
        (frames[k] = "Done" /\ ChunksBefore(k) /\ Received(k))
        => /\ Len(Delivered) <= k - 1
           /\ result # "DecodeError"
           /\ ReadStart(Len(reads)) < FrameEnd(k)

\* C7: a complete frame whose payload is neither the sentinel nor a chunk
\* makes the call return a decode error, with no on_message for this frame
\* or a later one and no on_end.
C7_MalformedFailsFast ==
    \A k \in 1..Len(frames) :
        (frames[k] \in BadKinds /\ ChunksBefore(k) /\ ArrivedNow(k))
        => /\ pc = "done"
           /\ result = "DecodeError"
           /\ Len(Delivered) <= k - 1
           /\ Ended = 0

\* C8: a failed chunk() ends the call at once with that error: the failed
\* read is the last read, every read before it delivered one message and
\* nothing was delivered after it, and on_end was not called.
C8_ReadErrorStops ==
    \A i \in 1..Len(reads) :
        reads[i].kind = "error"
        => /\ i = Len(reads)
           /\ pc = "done"
           /\ result = "TransportError"
           /\ Ended = 0
           /\ Len(Delivered) = i - 1

\* C8 happens: a read failed after a chunk had been delivered
C8_Witness ==
    /\ reads # <<>>
    /\ reads[Len(reads)].kind = "error"
    /\ Len(Delivered) >= 1

\* C9: when the call returns an error, on_end has not been called and the
\* on_message calls are those of the chunks decoded before the failing step,
\* each once and in order.
C9_ErrorKeepsDeliveries ==
    result \in {"TransportError", "DecodeError"}
    => /\ pc = "done"
       /\ Ended = 0
       /\ Len(events) = Len(Delivered)
       /\ Delivered = DecodedUpTo(Len(reads) - 1)
       /\ Len(Delivered) = IF reads = <<>> THEN 0 ELSE Len(reads) - 1

\* C9 happens: decoding failed after a chunk had been delivered
C9_Witness ==
    /\ result = "DecodeError"
    /\ Len(Delivered) >= 1

\* C10: bytes that do not yet end in the delimiter are kept and not
\* dispatched: while the body handed over so far ends inside a frame, the call
\* is still reading and has delivered only the frames before it; and when
\* chunk() yields None with a partial frame pending, the call fails.
C10_PartialFrameRetained ==
    /\ \A k \in 1..Len(frames) :
           ( /\ ChunksBefore(k)
             /\ frames[k] \in ChunkKinds \cup {"Trunc"}
             /\ FrameEnd(k - 1) < off
             /\ off < FrameEnd(k)
             /\ reads[Len(reads)].kind = "chunk" )
           => (result = "Pending" /\ Len(Delivered) = k - 1)
    /\ ( /\ reads # <<>>
         /\ reads[Len(reads)].kind = "eof"
         /\ frames # <<>>
         /\ frames[Len(frames)] = "Trunc" )
       => (result \notin {"Ok", "Pending"} /\ Ended = 0)

\* C11: a chunk that holds k complete chunk frames, one or several, is
\* handled without error and makes k on_message calls in frame order: when
\* the latest read began at a frame boundary and ended at a later one, with
\* chunk frames only up to there, the call is still reading and every frame
\* up to there has been delivered.
C11_FramesPerChunk ==
    \A k \in 1..Len(frames) :
        \A j \in 1..k :
            ( /\ \A m \in 1..k : frames[m] \in ChunkKinds
              /\ reads # <<>>
              /\ reads[Len(reads)].kind = "chunk"
              /\ ReadStart(Len(reads)) = FrameEnd(j - 1)
              /\ off = FrameEnd(k) )
            => /\ result = "Pending"
               /\ Delivered = [m \in 1..k |-> FrameId(frames[m])]

---------------------------------------------------------------------------
(* Two chat_completion_stream calls side by side.  A call's locals (res,   *)
(* chunk, pos, ...) live in its own future; &self is only read.  The calls *)
(* are interleaved at their await points, lib.rs 70 and 72.                *)

\* the bodies the two calls are given
TwoBodies == {<<"Chunk1">>, <<"Chunk2">>}

CallIds == {1, 2}

\* a call that has not sent its request yet
NewCall(body) ==
    [frames |-> body, off |-> 0, reads |-> <<>>, events |-> <<>>,
     pc |-> "send", result |-> "Pending"]

\* the single-stream variables while they are not in use
StreamIdle ==
    /\ frames = <<>>
    /\ off = 0
    /\ reads = <<>>
    /\ events = <<>>
    /\ pc = "idle"
    /\ result = "Pending"
    /\ status = 0
    /\ requests = 0

InitTwo ==
    /\ StreamIdle
    /\ calls \in [CallIds -> {NewCall(b) : b \in TwoBodies}]
    /\ rpc = [pc |-> "idle"]
    /\ ser = [pc |-> "idle"]

\* fault variant of CallHandleChunk: the decode failure is kept in a place
\* all calls share, so that one call's failure ends the others
CallHandleChunkShared(st, chunk) ==
    LET outcome == ChunkOutcome(chunk)
        poisoned == \E d \in CallIds : calls[d].result = "DecodeError"
    IN  IF outcome = "panic"
        THEN [st EXCEPT !.pc = "done", !.result = "Panic"]
        ELSE IF outcome = "error" \/ poisoned
        THEN [st EXCEPT !.pc = "done", !.result = "DecodeError"]
        ELSE [st EXCEPT !.events = on_message(st.events, DecodeChunk(chunk))]

\* lines 73-103, the loop body for one chunk, on the state st of one call
CallHandleChunk(st, chunk) ==
    LET outcome == ChunkOutcome(chunk)
    IN  IF outcome = "panic"
        THEN [st EXCEPT !.pc = "done", !.result = "Panic"]
        ELSE IF outcome = "error"
        THEN [st EXCEPT !.pc = "done", !.result = "DecodeError"]
        ELSE [st EXCEPT !.events = on_message(st.events, DecodeChunk(chunk))]

\* line 70 of call c
CallSend(c) ==
    /\ calls[c].pc = "send"
    /\ calls' = [calls EXCEPT ![c].pc = "loop"]
    /\ UNCHANGED <<frames, off, reads, events, pc, result, status, requests,
                   rpc, ser>>

\* lines 72-104 of call c: Some(chunk)
CallNextChunk(c) ==
    /\ calls[c].pc = "loop"
    /\ LET st == calls[c]
           w == WireOf(st.frames)
       IN  \E n \in 1..(Len(w) - st.off) :
             LET chunk == SubSeq(w, st.off + 1, st.off + n)
                 read == [st EXCEPT
                            !.off = st.off + n,
                            !.reads = Append(st.reads,
                                             [kind |-> "chunk", len |-> n])]
             IN  calls' = [calls EXCEPT ![c] = CallHandleChunk(read, chunk)]
    /\ UNCHANGED <<frames, off, reads, events, pc, result, status, requests,
                   rpc, ser>>

\* lines 72, 105-106 of call c: None
CallEndOfBody(c) ==
    /\ calls[c].pc = "loop"
    /\ calls[c].off = Len(WireOf(calls[c].frames))
    /\ calls' = [calls EXCEPT
                   ![c].reads = Append(@, [kind |-> "eof", len |-> 0]),
                   ![c].events = on_end(@),
                   ![c].pc = "done",
                   ![c].result = "Ok"]
    /\ UNCHANGED <<frames, off, reads, events, pc, result, status, requests,
                   rpc, ser>>

\* line 72 of call c: chunk() fails
CallChunkErr(c) ==
    /\ calls[c].pc = "loop"
    /\ calls' = [calls EXCEPT
                   ![c].reads = Append(@, [kind |-> "error", len |-> 0]),
                   ![c].pc = "done",
                   ![c].result = "TransportError"]
    /\ UNCHANGED <<frames, off, reads, events, pc, result, status, requests,
                   rpc, ser>>

NextTwo ==
    \E c \in CallIds :
        \/ CallSend(c)
        \/ CallNextChunk(c)
        \/ CallEndOfBody(c)
        \/ CallChunkErr(c)

SpecTwo == InitTwo /\ [][NextTwo]_vars

RECURSIVE SumLen(_, _)
\* number of bytes the reads rs[1..m] returned
SumLen(rs, m) == IF m <= 0 THEN 0 ELSE SumLen(rs, m - 1) + rs[m].len

RECURSIVE Alone(_, _, _)
\* what a call reading body w reaches when it runs alone and its reads are
\* rs[1..i]: [events, pc, result]
Alone(w, rs, i) ==
    IF i = 0 THEN [events |-> <<>>, pc |-> "loop", result |-> "Pending"]
    ELSE LET before == Alone(w, rs, i - 1)
             start == SumLen(rs, i - 1)
             chunk == SubSeq(w, start + 1, start + rs[i].len)
             outcome == ChunkOutcome(chunk)
         IN  IF rs[i].kind = "eof"
             THEN [events |-> on_end(before.events), pc |-> "done",
                   result |-> "Ok"]
             ELSE IF rs[i].kind = "error"
             THEN [before EXCEPT !.pc = "done", !.result = "TransportError"]
             ELSE IF outcome = "panic"
             THEN [before EXCEPT !.pc = "done", !.result = "Panic"]
             ELSE IF outcome = "error"
             THEN [before EXCEPT !.pc = "done", !.result = "DecodeError"]
             ELSE [before EXCEPT
                     !.events = on_message(@, DecodeChunk(chunk))]

\* C12: two calls running side by side share no state: what each call has
\* told its consumer and what it returns are what the call reaches alone on
\* its own chunks, whatever the other call has done in between.
C12_CallsIndependent ==
    \A c \in DOMAIN calls :
        calls[c].pc # "send"
        => LET alone == Alone(WireOf(calls[c].frames), calls[c].reads,
                              Len(calls[c].reads))
           IN  /\ calls[c].events = alone.events
               /\ calls[c].pc = alone.pc
               /\ calls[c].result = alone.result

\* C12 happens: both calls read chunks, one failed to decode and the other
\* went on to deliver its chunk and end
C12_Witness ==
    /\ DOMAIN calls = CallIds
    /\ calls[1].result = "DecodeError"
    /\ calls[2].result = "Ok"
    /\ Len(calls[2].events) = 2

---------------------------------------------------------------------------
(* Claims on the single stream, continued *)

\* C13: a call that has ended stays ended: no step reads from the transport,
\* sends a request, calls the consumer or changes the result after the call
\* is done; the result, once set, is never set again; and a call sends at
\* most one HTTP request.
C13_TerminalNoRetry ==
    [][ /\ pc = "done" =>
            UNCHANGED <<pc, off, reads, requests, events, result>>
        /\ result # "Pending" => result' = result
        /\ requests' <= 1 ]_vars

\* C13 happens: the call failed after one request, with body bytes unread
C13_Witness ==
    /\ pc = "done"
    /\ result = "DecodeError"
    /\ requests = 1
    /\ off < Len(Wire)

---------------------------------------------------------------------------
(* The non-streaming calls chat_completion, vision_lite, vision_pro and    *)
(* embeddings (lib.rs 40-55, 109-153) and send_and_log (lib.rs 160-172).   *)
(* Each builds one request, awaits send_and_log and deserializes the body. *)

streamVars == <<frames, off, reads, events, pc, result, status, requests>>

Apis == {"chat_completion", "vision_lite", "vision_pro", "embeddings"}

\* statuses a response can carry, around the edges of 4xx and 5xx
RpcStatuses == {200, 204, 302, 399, 400, 404, 429, 499, 500, 503, 599}

\* response bodies: the text of a success value of each call, the text of an
\* API error object, text that is not JSON, and nothing
RpcBodies ==
    {"ChatCompletionResponse", "VisionLiteResponse", "VisionProResponse",
     "EmbeddingsResponse", "ApiErrorObject", "NotJson", ""}

\* the body text res.json::<T>() of a call accepts
ValueOf(api) ==
    CASE api = "chat_completion" -> "ChatCompletionResponse"
      [] api = "vision_lite" -> "VisionLiteResponse"
      [] api = "vision_pro" -> "VisionProResponse"
      [] api = "embeddings" -> "EmbeddingsResponse"

\* StatusCode::is_client_error
is_client_error(st) == 400 <= st /\ st < 500

\* StatusCode::is_server_error
is_server_error(st) == 500 <= st /\ st < 600

\* fault variant of IsFailure: only 4xx is taken for a failure
IsFailureClientOnly(st) == is_client_error(st)

\* line 164
IsFailure(st) == is_client_error(st) \/ is_server_error(st)

\* line 168: anyhow!("API failed: {}", text).  An error is given by what
\* it was built from: the body texts and the status codes it holds.
ApiFailed(text) ==
    [kind |-> "API failed", texts |-> <<text>>, statuses |-> <<>>]

\* a reqwest::Error or serde_json::Error passed on by `?`
TransportFailed ==
    [kind |-> "reqwest::Error", texts |-> <<>>, statuses |-> <<>>]

InitRpc ==
    /\ StreamIdle
    /\ calls = <<>>
    /\ ser = [pc |-> "idle"]
    /\ \E api \in Apis :
         rpc = [pc |-> "send", api |-> api, status |-> 0, body |-> "",
                result |-> "Pending", value |-> "",
                error |-> [kind |-> "none", texts |-> <<>>,
                           statuses |-> <<>>]]

\* line 162: send() fails
RpcSendErr ==
    /\ rpc.pc = "send"
    /\ rpc' = [rpc EXCEPT !.pc = "done", !.result = "Err",
                          !.error = TransportFailed]
    /\ UNCHANGED <<streamVars, calls, ser>>

\* lines 162-170: send() resolves with a response; a 4xx or 5xx status goes
\* on to read the body text, any other status returns the response
RpcSendAndLog ==
    /\ rpc.pc = "send"
    /\ \E st \in RpcStatuses, b \in RpcBodies :
         rpc' = [rpc EXCEPT !.status = st, !.body = b,
                            !.pc = IF IsFailure(st) THEN "text" ELSE "json"]
    /\ UNCHANGED <<streamVars, calls, ser>>

\* lines 166-168: the body text is read and returned in the error
RpcTextOk ==
    /\ rpc.pc = "text"
    /\ rpc' = [rpc EXCEPT !.pc = "done", !.result = "Err",
                          !.error = ApiFailed(rpc.body)]
    /\ UNCHANGED <<streamVars, calls, ser>>

\* line 166: reading the body text fails
RpcTextErr ==
    /\ rpc.pc = "text"
    /\ rpc' = [rpc EXCEPT !.pc = "done", !.result = "Err",
                          !.error = TransportFailed]
    /\ UNCHANGED <<streamVars, calls, ser>>

\* lines 54, 120, 135, 152: res.json::<T>() on the returned response
RpcJson ==
    /\ rpc.pc = "json"
    /\ rpc' = IF rpc.body = ValueOf(rpc.api)
              THEN [rpc EXCEPT !.pc = "done", !.result = "Ok",
                               !.value = rpc.body]
              ELSE [rpc EXCEPT !.pc = "done", !.result = "Err",
                               !.error = TransportFailed]
    /\ UNCHANGED <<streamVars, calls, ser>>

NextRpc ==
    \/ RpcSendErr
    \/ RpcSendAndLog
    \/ RpcTextOk
    \/ RpcTextErr
    \/ RpcJson

SpecRpc == InitRpc /\ [][NextRpc]_vars

\* the call has ended on a response with a 4xx or 5xx status
RpcFailedStatus ==
    /\ rpc.pc = "done"
    /\ 400 <= rpc.status
    /\ rpc.status <= 599

\* the error holds the response's status code
CarriesStatus ==
    \E i \in 1..Len(rpc.error.statuses) : rpc.error.statuses[i] = rpc.status

\* the error holds the response's body text
CarriesText ==
    \E i \in 1..Len(rpc.error.texts) : rpc.error.texts[i] = rpc.body

\* C14 as stated: a 4xx or 5xx response is never deserialized as a success
\* value; the call returns an error that carries both the status code and
\* the response body text.
C14_ErrorCarriesStatusAndText ==
    RpcFailedStatus
    => /\ rpc.result = "Err"
       /\ rpc.value = ""
       /\ CarriesStatus
       /\ CarriesText

\* C14 as amended: a 4xx or 5xx response is never deserialized as a success
\* value; the call returns one error, which is `API failed: <body text>`
\* when the body text could be read and the transport error otherwise; the
\* status code is not part of the error.
C14_ErrorCarriesText ==
    RpcFailedStatus
    => /\ rpc.result = "Err"
       /\ rpc.value = ""
       /\ rpc.error \in {ApiFailed(rpc.body), TransportFailed}
       /\ ~CarriesStatus

\* C14 happens: a 5xx response whose body would deserialize as the call's
\* success value ended in the API error
C14_Witness ==
    /\ RpcFailedStatus
    /\ rpc.status >= 500
    /\ rpc.body = ValueOf(rpc.api)
    /\ rpc.error = ApiFailed(rpc.body)

---------------------------------------------------------------------------
(* serde_json::to_string of a ChatCompletionRequest                        *)
(* (api/chat_completion.rs 7-70, 104-169).  A JSON object is the sequence  *)
(* of its members in the order they are written; a member is a record      *)
(* [key, val]; null is the text "null".                                    *)

\* largest number of messages in a request
MaxMessages == 2

\* largest number of optional fields a request sets
MaxOptionals == 1

\* the Option fields of ChatCompletionRequest, in declaration order; each
\* has skip_serializing_if = "Option::is_none"
OptionalFields ==
    <<"stream", "stream_options", "max_tokens", "stop", "frequency_penalty",
      "temperature", "top_p", "logprobs", "top_logprobs", "logit_bias",
      "tools">>

\* the messages a request is built from
Messages ==
    { [variant |-> "System", content |-> "c1"],
      [variant |-> "User", content |-> "c2"],
      [variant |-> "Assistant", content |-> "c3", tool_calls |-> "null"],
      [variant |-> "Assistant", content |-> "null", tool_calls |-> "null"],
      [variant |-> "Tool", content |-> "c4", tool_call_id |-> "t1"] }

\* rename_all = "snake_case" on the variants of ChatCompletionMessage
VariantTag(variant) ==
    CASE variant = "System" -> "system"
      [] variant = "User" -> "user"
      [] variant = "Assistant" -> "assistant"
      [] variant = "Tool" -> "tool"

Member(k, v) == [key |-> k, val |-> v]

\* the members of the struct a variant wraps, in declaration order; an
\* Option without skip_serializing_if is written as null
MessageFields(m) ==
    CASE m.variant = "System" -> <<Member("content", m.content)>>
      [] m.variant = "User" -> <<Member("content", m.content)>>
      [] m.variant = "Assistant" ->
           <<Member("content", m.content), Member("tool_calls", m.tool_calls)>>
      [] m.variant = "Tool" ->
           <<Member("content", m.content),
             Member("tool_call_id", m.tool_call_id)>>

\* tag = "role": the tag is written first, then the variant's members
SerializeMessage(m) ==
    <<Member("role", VariantTag(m.variant))>> \o MessageFields(m)

RECURSIVE OptionalMembersAll(_, _)
\* fault variant of OptionalMembers: None is written as null
OptionalMembersAll(req, i) ==
    IF i > Len(OptionalFields) THEN <<>>
    ELSE <<Member(OptionalFields[i],
                  IF i \in req.set THEN "some" ELSE "null")>>
         \o OptionalMembersAll(req, i + 1)

RECURSIVE OptionalMembers(_, _)
\* the members of the optional fields from the i-th on: a field that is None
\* is skipped
OptionalMembers(req, i) ==
    IF i > Len(OptionalFields) THEN <<>>
    ELSE (IF i \in req.set THEN <<Member(OptionalFields[i], "some")>>
          ELSE <<>>)
         \o OptionalMembers(req, i + 1)

\* #[derive(Serialize)] on ChatCompletionRequest
Serialize(req) ==
    <<Member("model", req.model),
      Member("messages",
             [i \in 1..Len(req.messages) |->
                 SerializeMessage(req.messages[i])])>>
    \o OptionalMembers(req, 1)

\* the requests ChatCompletionRequestBuilder builds: model and messages are
\* given, the optional fields in `set` (by position) are set
Requests ==
    { [model |-> "ep", messages |-> ms, set |-> os] :
        ms \in UNION { [1..n -> Messages] : n \in 0..MaxMessages },
        os \in { o \in SUBSET (1..Len(OptionalFields)) :
                   Cardinality(o) <= MaxOptionals } }

InitSer ==
    /\ StreamIdle
    /\ calls = <<>>
    /\ rpc = [pc |-> "idle"]
    /\ \E req \in Requests : ser = [pc |-> "built", req |-> req, json |-> <<>>]

\* serde_json::to_string(&request)
to_string ==
    /\ ser.pc = "built"
    /\ ser' = [ser EXCEPT !.pc = "done", !.json = Serialize(ser.req)]
    /\ UNCHANGED <<streamVars, calls, rpc>>

NextSer == to_string

SpecSer == InitSer /\ [][NextSer]_vars

\* the keys of a JSON object, in the order they are written
Keys(obj) == [i \in 1..Len(obj) |-> obj[i].key]

\* the struct members each role carries
RoleMembers ==
    { <<"System", "system", <<"content">>>>,
      <<"User", "user", <<"content">>>>,
      <<"Assistant", "assistant", <<"content", "tool_calls">>>>,
      <<"Tool", "tool", <<"content", "tool_call_id">>>> }

\* C15: a request built with only model and messages serializes to an
\* object with exactly the keys model and messages, in that order (every
\* unset optional field is left out); the messages keep their order, and
\* each is an object that begins with `role`, the lower-case variant name,
\* followed by the members of the message.
C15_OnlyModelAndMessages ==
    (ser.pc = "done" /\ ser.req.set = {})
    => /\ Keys(ser.json) = <<"model", "messages">>
       /\ ser.json[1].val = ser.req.model
       /\ Len(ser.json[2].val) = Len(ser.req.messages)
       /\ \A i \in 1..Len(ser.req.messages) :
              LET m == ser.req.messages[i]
                  obj == ser.json[2].val[i]
              IN  /\ obj[1].key = "role"
                  /\ <<m.variant, obj[1].val, Keys(Tail(obj))>> \in RoleMembers
                  /\ obj[2].val = m.content

\* C15 happens: the request of the repository's test, a system message and
\* then a user message and nothing else, has been serialized
C15_Witness ==
    /\ ser.pc = "done"
    /\ ser.req.set = {}
    /\ Len(ser.req.messages) = 2
    /\ ser.req.messages[1].variant = "System"
    /\ ser.req.messages[2].variant = "User"

---------------------------------------------------------------------------
(* Claims on the single stream, continued *)

\* the reads that returned a chunk
ChunkReads == {i \in 1..Len(reads) : reads[i].kind = "chunk"}

\* C16: whatever the length of a chunk, handling it ends in on_message or
\* in a returned error: the scan never reads outside the chunk and
\* chunk_len - LINE_FEED_COUNT never goes below zero, so nothing panics.
C16_ScanInBounds ==
    /\ \A i \in ChunkReads : ~Scan(ChunkAt(i)).panic
    /\ result \in {"Pending", "Ok", "TransportError", "DecodeError"}

\* the part of a chunk that is decoded, as C17 states it: from the first `{`
\* of the chunk, or from its start when it has none, to its end
FromFirstBrace(chunk) ==
    LET braces == {p \in 1..Len(chunk) : chunk[p] = LEFT_SIGN}
        first == IF braces = {} THEN 1
                 ELSE CHOOSE p \in braces : \A q \in braces : p <= q
    IN  SubSeq(chunk, first, Len(chunk))

RECURSIVE ValuesUpTo(_)
\* the ids of the chunks of reads 1..i that were handled without a panic and
\* whose part from the first `{` on is one value of the chunk schema
ValuesUpTo(i) ==
    IF i <= 0 THEN <<>>
    ELSE IF /\ reads[i].kind = "chunk"
            /\ ~Scan(ChunkAt(i)).panic
            /\ FromSlice(FromFirstBrace(ChunkAt(i))) # 0
    THEN Append(ValuesUpTo(i - 1), FromSlice(FromFirstBrace(ChunkAt(i))))
    ELSE ValuesUpTo(i - 1)

C18_ErrorStatusFails ==
    status >= 400
    => /\ events = <<>>
       /\ result # "Ok"

\* what handling a chunk ends in with the scan of lines 75-91 taken out
OutcomeWithoutScan(chunk) ==
    IF DecodeChunk(chunk) = 0 THEN "error" ELSE "message"

\* C19: in the scan `last_pos + 1 == i` is never true, so line_count is 0
\* after every chunk, and the scan changes nothing the rest of the call
\* reads: every chunk ends as it would end with the scan taken out.
C19_ScanHasNoEffect ==
    \A i \in ChunkReads :
        /\ Scan(ChunkAt(i)).line_count = 0
        /\ ChunkOutcome(ChunkAt(i)) = OutcomeWithoutScan(ChunkAt(i))

=============================================================================
